---- MODULE Spec2Model ----
(***************************************************************************)
(* Serving-time recommendation engine of packages/ml/app/api/recommend.py: *)
(* the result cache (_cache, _cache_ttl), the in-memory models             *)
(* (_als_model, _tfidf_data, _mappings), the scorers, the hybrid blender,  *)
(* the cold-start fallback and the request handlers.                       *)
(*                                                                         *)
(* Every handler is an `async def` without an await in its body, so the    *)
(* event loop runs each handler to completion before the next one starts:  *)
(* one action models one whole handler call.                               *)
(*                                                                         *)
(* Time is the reading of datetime.now() in whole seconds.  Scores are     *)
(* integers: ScoreUnit stands for the float 1.0.                           *)
(***************************************************************************)
EXTENDS Integers, Sequences, FiniteSets, TLC

VARIABLES
    now,        \* datetime.now(), in seconds
    cache,      \* _cache: the dict in insertion order, a sequence of entries
    alsModel,   \* _als_model: 0 is None, g > 0 the model of generation g
    tfidfData,  \* _tfidf_data: 0 is None, g > 0 the data of generation g
    mappings,   \* _mappings: 0 is None, g > 0 the mappings of generation g
    store,      \* the files of settings.model_dir, one state per artifact
    orders,     \* per user: product ids of the order items, newest first
    views,      \* per user: product ids viewed within the 30 day horizon
    otherSales, \* per product: quantity sold to customers outside Users
    resp,       \* what the last operation did and returned (history)
    served,     \* per cache key: the list the last request for it returned
    steps       \* number of operations so far (history)

vars == <<now, cache, alsModel, tfidfData, mappings, store,
          orders, views, otherSales, resp, served, steps>>

(***************************************************************************)
(* Program constants                                                       *)
(***************************************************************************)
CacheTtl == 3600
CacheCapacity == 1000
EvictCount == 200
TopKMin == 1
TopKMax == 100

ScoreUnit == 5040 * 1000

(***************************************************************************)
(* Bounds of the model                                                     *)
(***************************************************************************)
NumUsers == 2
NumItems == 4
MaxTime == 7200
MaxSteps == 3
MaxCacheOps == 2
MaxEngineSteps == 1
MaxK == 4
MaxWideK == 6
MaxOrders == 2
MaxSold == 1

Users == 1..NumUsers
Items == 1..NumItems

Range(s) == {s[i] : i \in 1..Len(s)}

(***************************************************************************)
(* Result cache                                                            *)
(***************************************************************************)

\* cache_key = f"{user_id}:{top_k}".  top_k is an int, so its decimal form
\* holds no colon and the text after the last colon determines top_k: the
\* string is one-to-one with the pair, which stands for it here.
CacheKey(user_id, top_k) == <<user_id, top_k>>

\* position of the key in the dict, 0 when the key is absent
CacheIndex(c, key) ==
    IF \E i \in 1..Len(c) : c[i].key = key
    THEN CHOOSE i \in 1..Len(c) : c[i].key = key
    ELSE 0

\* del _cache[cache_key]
CacheDelete(c, i) == [j \in 1..(Len(c) - 1) |-> IF j < i THEN c[j] ELSE c[j + 1]]

\* get_cached_recommendations looking up a key that is never stored
GetCachedMiss(c, user_id, top_k, t) ==
    [found |-> FALSE, hit |-> FALSE, data |-> <<>>, cache |-> c]

\* get_cached_recommendations with <= in place of < at line 299
GetCachedInclusive(c, user_id, top_k, t) ==
    LET key == CacheKey(user_id, top_k)
        i == CacheIndex(c, key)
    IN  IF i # 0
        THEN IF t - c[i].ts <= CacheTtl
             THEN [found |-> TRUE, hit |-> TRUE, data |-> c[i].data, cache |-> c]
             ELSE [found |-> TRUE, hit |-> FALSE, data |-> <<>>,
                   cache |-> CacheDelete(c, i)]
        ELSE [found |-> FALSE, hit |-> FALSE, data |-> <<>>, cache |-> c]

\* get_cached_recommendations: the list, or None (hit = FALSE); an expired
\* entry is deleted by the read.
GetCached(c, user_id, top_k, t) ==
    LET key == CacheKey(user_id, top_k)
        i == CacheIndex(c, key)
    IN  IF i # 0
        THEN IF t - c[i].ts < CacheTtl
             THEN [found |-> TRUE, hit |-> TRUE, data |-> c[i].data, cache |-> c]
             ELSE [found |-> TRUE, hit |-> FALSE, data |-> <<>>,
                   cache |-> CacheDelete(c, i)]
        ELSE [found |-> FALSE, hit |-> FALSE, data |-> <<>>, cache |-> c]

\* sorted(_cache.items(), key=lambda x: x[1][1]): the sort is stable, so the
\* entries are ordered by (timestamp, position in the dict); SortCode folds
\* the two into one number.
SortBase == CacheCapacity + 2

SortCode(c, i) == c[i].ts * SortBase + i

\* the k-th smallest element of a set of numbers within lo..hi
RECURSIVE KthSmallest(_, _, _, _)
KthSmallest(codes, k, lo, hi) ==
    IF lo >= hi THEN lo
    ELSE LET mid == (lo + hi) \div 2
         IN  IF Cardinality({x \in codes : x <= mid}) >= k
             THEN KthSmallest(codes, k, lo, mid)
             ELSE KthSmallest(codes, k, mid + 1, hi)

\* eviction of the first 200 keys of the dict, without the sort of line 316
EvictFirstInserted(c, t) == SubSeq(c, EvictCount + 1, Len(c))

\* eviction of the last 200 keys of the dict, the key just written among
\* them
EvictLastInserted(c, t) == SubSeq(c, 1, Len(c) - EvictCount)

\* for key, _ in sorted_cache[:200]: del _cache[key]
EvictOldest(c, t) ==
    LET tagged == [i \in 1..Len(c) |-> [e |-> c[i], code |-> SortCode(c, i)]]
        codes == {tagged[i].code : i \in 1..Len(c)}
        last == KthSmallest(codes, EvictCount, 0, (t + 1) * SortBase)
        Survives(x) == x.code > last
        kept == SelectSeq(tagged, Survives)
    IN  [p \in 1..Len(kept) |-> kept[p].e]

\* a write that stores nothing for an empty list
SetCachedNonEmpty(c, user_id, top_k, recommendations, t, m) ==
    IF recommendations = <<>> THEN c
    ELSE LET key == CacheKey(user_id, top_k)
             entry == [key |-> key, data |-> recommendations, ts |-> t, models |-> m]
             i == CacheIndex(c, key)
             c1 == IF i # 0 THEN [c EXCEPT ![i] = entry] ELSE Append(c, entry)
         IN  IF Len(c1) > CacheCapacity THEN EvictOldest(c1, t) ELSE c1

\* set_cached_recommendations.  An assignment to a key of the dict keeps the
\* key's position; a new key goes to the end.  m is the triple of models the
\* list was computed from (history, not in the code).
SetCached(c, user_id, top_k, recommendations, t, m) ==
    LET key == CacheKey(user_id, top_k)
        entry == [key |-> key, data |-> recommendations, ts |-> t, models |-> m]
        i == CacheIndex(c, key)
        c1 == IF i # 0 THEN [c EXCEPT ![i] = entry] ELSE Append(c, entry)
    IN  IF Len(c1) > CacheCapacity THEN EvictOldest(c1, t) ELSE c1

\* get_cache_stats()["cache_size"]
CacheSize(c) == Len(c)

(***************************************************************************)
(* Trained artifacts.  The training jobs and the libraries that answer     *)
(* the similarity queries are outside the program; a generation g fixes    *)
(* what the three files hold.  A file of the store is 0 (missing),         *)
(* -1 (present, fails to load), Malformed (loads, but to an object that    *)
(* has none of the keys and methods the scorers use) or g > 0.             *)
(***************************************************************************)
NumGens == 2

Gens == 1..NumGens

\* what joblib.load / json.load return for a file that holds another object
\* than the training job writes, such as {} in mappings.json
Malformed == -2

FileStates == {Malformed, -1, 0} \cup Gens

\* mappings.json: user_index
UserIndex(g) == IF g = 1 THEN {1} ELSE Users

\* mappings.json: index_to_item (dense index p, here from 1, to product id)
IndexToItem(g) == IF g = 1 THEN <<1, 2, 3>> ELSE [p \in 1..NumItems |-> p]

\* mappings.json: item_index, the inverse of index_to_item
ItemIndex(g) == [id \in Range(IndexToItem(g)) |->
                    CHOOSE p \in 1..Len(IndexToItem(g)) : IndexToItem(g)[p] = id]

\* number of item factors of the ALS model
AlsItems(g) == IF g = 1 THEN 3 ELSE NumItems

Abs(x) == IF x < 0 THEN -x ELSE x

\* similarity of two item factors; an item is at 1.0 from itself and a
\* similarity may be negative
AlsSimilarity(g, a, b) ==
    IF a = b THEN ScoreUnit
    ELSE IF g = 1 THEN (100 - 20 * Abs(a - b)) * (ScoreUnit \div 100)
    ELSE (50 - 30 * Abs(a - b)) * (ScoreUnit \div 100)

\* sorted(s, key=score, reverse=True): stable, so records with equal scores
\* keep their order
RECURSIVE SortDesc(_)
SortDesc(s) ==
    IF Len(s) <= 1 THEN s
    ELSE LET rest == SortDesc(Tail(s))
             x == Head(s)
             \* x goes before the first record with a score not above its own
             n == Cardinality({i \in 1..Len(rest) : rest[i].score > x.score})
         IN  SubSeq(rest, 1, n) \o <<x>> \o SubSeq(rest, n + 1, Len(rest))

Prefix(s, n) == SubSeq(s, 1, IF n < Len(s) THEN n ELSE Len(s))

\* _als_model.similar_items(item_idx, N): the N nearest items, the item
\* itself included, best first (equal scores in index order).  The result
\* is a sequence of [idx, score].
AlsSimilarItems(g, item_idx, N) ==
    LET all == [p \in 1..AlsItems(g) |->
                   [idx |-> p, score |-> AlsSimilarity(g, item_idx, p)]]
    IN  Prefix(SortDesc(all), N)

\* tfidf.joblib: products_df['id'] in row order
TfidfProducts(g) == IF g = 1 THEN <<1, 2, 3>> ELSE <<4, 1, 2, 3>>

\* tfidf.joblib: the row of a product in the term-weight matrix, over two
\* terms and scaled by 5: a row of the matrix has length 1 or is all zero
TfidfRow(g, id) ==
    IF g = 1 THEN (IF id = 1 THEN <<5, 0>> ELSE IF id = 2 THEN <<3, 4>> ELSE <<0, 5>>)
    ELSE (IF id <= 2 THEN <<5, 0>> ELSE IF id = 3 THEN <<0, 5>> ELSE <<0, 0>>)

(***************************************************************************)
(* History accessor (app/db.py)                                            *)
(***************************************************************************)

\* db.get_user_order_history(user_id)['product_id'].tolist(): one row per
\* order item of the user's orders that are not cancelled or refunded,
\* newest order first
UserOrderHistory(user_id) == orders[user_id]

\* db.get_user_view_events(user_id, days=30)['product_id']
UserViewEvents(user_id) == views[user_id]

\* SUM(oi.qty) per product over the orders that are not cancelled or
\* refunded (an order item of the model has quantity 1)
TotalSold(id) ==
    otherSales[id]
    + Cardinality(UNION {{<<u, i>> : i \in {j \in 1..Len(orders[u]) : orders[u][j] = id}} :
                            u \in Users})

\* db.get_top_selling_products(limit): GROUP BY product, ORDER BY
\* total_sold DESC, LIMIT.  Products with equal totals come in id order.
TopSellingProducts(limit) ==
    LET sold == SelectSeq([i \in 1..NumItems |-> i], LAMBDA id : TotalSold(id) > 0)
        rows == [p \in 1..Len(sold) |-> [product_id |-> sold[p], score |-> TotalSold(sold[p])]]
        ranked == SortDesc(rows)
    IN  Prefix([p \in 1..Len(ranked) |-> ranked[p].product_id], limit)

(***************************************************************************)
(* Scorers                                                                 *)
(***************************************************************************)
SeedCount == 5
NeighbourExtra == 10
CfWeight == 7
CbWeight == 3
WeightScale == 10

Rec(id, score, reasons) == [product_id |-> id, score |-> score, reason |-> reasons]

\* the neighbours of one seed without the test of line 120
SeedNeighboursUnfiltered(als, map, item_id, purchased, top_k) ==
    IF map = Malformed THEN <<>>
    ELSE IF item_id \notin DOMAIN ItemIndex(map) THEN <<>>
    ELSE IF als = Malformed THEN <<>>
    ELSE LET item_idx == ItemIndex(map)[item_id]
         IN  IF item_idx > AlsItems(als) THEN <<>>
             ELSE LET similar == AlsSimilarItems(als, item_idx, top_k + NeighbourExtra)
                      known == {p \in 1..Len(similar) :
                                   \A q \in 1..p : similar[q].idx <= Len(IndexToItem(map))}
                      mapped == [p \in 1..Cardinality(known) |->
                                    Rec(IndexToItem(map)[similar[p].idx],
                                        similar[p].score, {"cf"})]
                  IN  mapped

\* the neighbours one seed item appends to recommended_items (lines 109-124).
\* similar_items raises for an index the model has no factor for, and
\* index_to_item[str(sim_idx)] raises for an index the mappings do not
\* hold: the except clause drops the rest of this seed's neighbours and
\* keeps what was appended before.
SeedNeighbours(als, map, item_id, purchased, top_k) ==
    IF map = Malformed THEN <<>>
    ELSE IF item_id \notin DOMAIN ItemIndex(map) THEN <<>>
    ELSE IF als = Malformed THEN <<>>
    ELSE LET item_idx == ItemIndex(map)[item_id]
         IN  IF item_idx > AlsItems(als) THEN <<>>
             ELSE LET similar == AlsSimilarItems(als, item_idx, top_k + NeighbourExtra)
                      known == {p \in 1..Len(similar) :
                                   \A q \in 1..p : similar[q].idx <= Len(IndexToItem(map))}
                      mapped == [p \in 1..Cardinality(known) |->
                                    Rec(IndexToItem(map)[similar[p].idx],
                                        similar[p].score, {"cf"})]
                  IN  SelectSeq(mapped, LAMBDA r : r.product_id \notin purchased)

RECURSIVE ConcatSeeds(_, _, _, _, _)
ConcatSeeds(als, map, seeds, purchased, top_k) ==
    IF seeds = <<>> THEN <<>>
    ELSE SeedNeighbours(als, map, Head(seeds), purchased, top_k)
         \o ConcatSeeds(als, map, Tail(seeds), purchased, top_k)

\* lines 127-134: keep the first occurrence of each product, stop at top_k
RECURSIVE DedupeTop(_, _, _, _)
DedupeTop(s, seen, unique_recs, top_k) ==
    IF s = <<>> THEN unique_recs
    ELSE IF Head(s).product_id \notin seen
         THEN IF Len(unique_recs) + 1 >= top_k
              THEN Append(unique_recs, Head(s))
              ELSE DedupeTop(Tail(s), seen \cup {Head(s).product_id},
                             Append(unique_recs, Head(s)), top_k)
         ELSE DedupeTop(Tail(s), seen, unique_recs, top_k)

\* lines 86-89 of get_collaborative_recommendations stand before the try:
\* _mappings['user_index'] of a mappings object without that key raises, and
\* nothing in the scorer or in get_hybrid_recommendations catches it
CollaborativeRaises(user_id) == alsModel # 0 /\ mappings = Malformed

\* the rows of a history that are in item_index, each product at its first
\* row only
RECURSIVE DistinctIndexed(_, _, _)
DistinctIndexed(rows, map, seen) ==
    IF rows = <<>> THEN <<>>
    ELSE IF Head(rows) \in seen \/ Head(rows) \notin DOMAIN ItemIndex(map)
    THEN DistinctIndexed(Tail(rows), map, seen)
    ELSE <<Head(rows)>> \o DistinctIndexed(Tail(rows), map, seen \cup {Head(rows)})

\* the collaborative scorer seeded with the first five distinct indexed
\* products of the history in place of head(5) of line 106
CollaborativeRecommendationsDistinct(user_id, top_k) ==
    IF alsModel = 0 \/ mappings = 0 THEN <<>>
    ELSE IF mappings = Malformed THEN <<>>
    ELSE IF user_id \notin UserIndex(mappings) THEN <<>>
    ELSE LET user_orders == UserOrderHistory(user_id)
             purchased_products == Range(user_orders)
             top_user_items == Prefix(DistinctIndexed(user_orders, mappings, {}), SeedCount)
             recommended_items ==
                 ConcatSeeds(alsModel, mappings, top_user_items,
                             purchased_products, top_k)
         IN  DedupeTop(SortDesc(recommended_items), {}, <<>>, top_k)

\* get_collaborative_recommendations (the list it returns, when it returns)
CollaborativeRecommendations(user_id, top_k) ==
    IF alsModel = 0 \/ mappings = 0 THEN <<>>
    ELSE IF mappings = Malformed THEN <<>>
    ELSE IF user_id \notin UserIndex(mappings) THEN <<>>
    ELSE LET user_orders == UserOrderHistory(user_id)
             purchased_products == Range(user_orders)
             top_user_items == Prefix(user_orders, SeedCount)
             recommended_items ==
                 ConcatSeeds(alsModel, mappings, top_user_items,
                             purchased_products, top_k)
         IN  DedupeTop(SortDesc(recommended_items), {}, <<>>, top_k)

\* floor of 1000 * dot / (5 * sqrt(sumsq)), by bisection on
\* r * r * sumsq * 25 <= (1000 * dot)^2
RECURSIVE CosineMilli(_, _, _, _)
CosineMilli(dot, sumsq, lo, hi) ==
    IF lo >= hi THEN lo
    ELSE LET mid == (lo + hi + 1) \div 2
         IN  IF mid * mid * sumsq <= (200 * dot) * (200 * dot)
             THEN CosineMilli(dot, sumsq, mid, hi)
             ELSE CosineMilli(dot, sumsq, lo, mid - 1)

Reverse(s) == [i \in 1..Len(s) |-> s[Len(s) + 1 - i]]

\* sum of coordinate x of the rows of a set of products
RECURSIVE SumRows(_, _, _)
SumRows(g, ids, x) ==
    IF ids = {} THEN 0
    ELSE LET id == CHOOSE p \in ids : TRUE
         IN  TfidfRow(g, id)[x] + SumRows(g, ids \ {id}, x)

\* cosine_similarity(user_profile, tfidf_matrix)[row of id]: the profile is
\* the mean of the rows of the user's products, and the cosine does not
\* depend on its length, so the sum stands for the mean.  A zero row or a
\* zero profile gives 0.
ProfileSimilarity(g, user_rows, id) ==
    LET sx == SumRows(g, user_rows, 1)
        sy == SumRows(g, user_rows, 2)
        v == TfidfRow(g, id)
        dot == sx * v[1] + sy * v[2]
        sumsq == sx * sx + sy * sy
    IN  IF dot = 0 THEN 0
        ELSE CosineMilli(dot, sumsq, 0, 1000) * (ScoreUnit \div 1000)

\* lines 194-205: walk the rows from the most similar one, skip the user's
\* own products, stop at top_k
RECURSIVE SkipOwnTop(_, _, _, _)
SkipOwnTop(s, user_products, recommendations, top_k) ==
    IF s = <<>> THEN recommendations
    ELSE IF Head(s).product_id \in user_products
         THEN SkipOwnTop(Tail(s), user_products, recommendations, top_k)
         ELSE IF Len(recommendations) + 1 >= top_k
              THEN Append(recommendations, Head(s))
              ELSE SkipOwnTop(Tail(s), user_products,
                              Append(recommendations, Head(s)), top_k)

\* the content scorer with a similarity floor: rows at similarity 0 are
\* left out of the walk of lines 194-205
ContentBasedRecommendationsFloor(user_id, top_k) ==
    IF tfidfData = 0 THEN <<>>
    \* _tfidf_data['vectorizer'] raises inside the try of line 157
    ELSE IF tfidfData = Malformed THEN <<>>
    ELSE LET products == TfidfProducts(tfidfData)
             user_products == Range(UserOrderHistory(user_id))
                              \cup UserViewEvents(user_id)
             user_rows == user_products \cap Range(products)
             rows == [p \in 1..Len(products) |->
                         Rec(products[p],
                             ProfileSimilarity(tfidfData, user_rows, products[p]),
                             {"cb"})]
         IN  IF user_products = {} THEN <<>>
             ELSE IF user_rows = {} THEN <<>>
             ELSE SkipOwnTop(SelectSeq(SortDesc(Reverse(rows)), LAMBDA r : r.score > 0),
                             user_products, <<>>, top_k)

\* get_content_based_recommendations.  similarities.argsort()[::-1] is the
\* reverse of an ascending stable sort: equal similarities come with the
\* higher row first.
ContentBasedRecommendations(user_id, top_k) ==
    IF tfidfData = 0 THEN <<>>
    \* _tfidf_data['vectorizer'] raises inside the try of line 157
    ELSE IF tfidfData = Malformed THEN <<>>
    ELSE LET products == TfidfProducts(tfidfData)
             user_products == Range(UserOrderHistory(user_id))
                              \cup UserViewEvents(user_id)
             user_rows == user_products \cap Range(products)
             rows == [p \in 1..Len(products) |->
                         Rec(products[p],
                             ProfileSimilarity(tfidfData, user_rows, products[p]),
                             {"cb"})]
         IN  IF user_products = {} THEN <<>>
             ELSE IF user_rows = {} THEN <<>>
             ELSE SkipOwnTop(SortDesc(Reverse(rows)), user_products, <<>>, top_k)

\* the loop of lines 241-248 with = in place of += at line 243
RECURSIVE AddContentAssign(_, _)
AddContentAssign(combined, cb_recs) ==
    IF cb_recs = <<>> THEN combined
    ELSE LET r == Head(cb_recs)
             hit == {i \in 1..Len(combined) : combined[i].product_id = r.product_id}
             cb_part == (r.score * CbWeight) \div WeightScale
         IN  IF hit # {}
             THEN LET i == CHOOSE j \in hit : TRUE
                  IN  AddContentAssign([combined EXCEPT ![i] =
                                           Rec(@.product_id, cb_part,
                                               @.reason \cup r.reason \cup {"hybrid"})],
                                       Tail(cb_recs))
             ELSE AddContentAssign(Append(combined, Rec(r.product_id, cb_part, r.reason)),
                                   Tail(cb_recs))

\* the loop of lines 241-248 without cb_weight at line 247
RECURSIVE AddContentUnweighted(_, _)
AddContentUnweighted(combined, cb_recs) ==
    IF cb_recs = <<>> THEN combined
    ELSE LET r == Head(cb_recs)
             hit == {i \in 1..Len(combined) : combined[i].product_id = r.product_id}
             cb_part == (r.score * CbWeight) \div WeightScale
         IN  IF hit # {}
             THEN LET i == CHOOSE j \in hit : TRUE
                  IN  AddContentUnweighted([combined EXCEPT ![i] =
                                               Rec(@.product_id, @.score + cb_part,
                                                   @.reason \cup r.reason \cup {"hybrid"})],
                                           Tail(cb_recs))
             ELSE AddContentUnweighted(Append(combined,
                                              Rec(r.product_id, r.score, r.reason)),
                                       Tail(cb_recs))

\* lines 231-257 of get_hybrid_recommendations: the dicts combined_scores and
\* combined_reasons keep the order of first insertion
RECURSIVE AddContent(_, _)
AddContent(combined, cb_recs) ==
    IF cb_recs = <<>> THEN combined
    ELSE LET r == Head(cb_recs)
             hit == {i \in 1..Len(combined) : combined[i].product_id = r.product_id}
             cb_part == (r.score * CbWeight) \div WeightScale
         IN  IF hit # {}
             THEN LET i == CHOOSE j \in hit : TRUE
                  IN  AddContent([combined EXCEPT ![i] =
                                     Rec(@.product_id, @.score + cb_part,
                                         @.reason \cup r.reason \cup {"hybrid"})],
                                 Tail(cb_recs))
             ELSE AddContent(Append(combined, Rec(r.product_id, cb_part, r.reason)),
                             Tail(cb_recs))

\* assigning combined_scores[prod_id] for a product that is already a key
\* overwrites the value and leaves the key where it is
RECURSIVE AddCollaborative(_, _)
AddCollaborative(combined, cf_recs) ==
    IF cf_recs = <<>> THEN combined
    ELSE LET r == Head(cf_recs)
             hit == {i \in 1..Len(combined) : combined[i].product_id = r.product_id}
             cf_part == (r.score * CfWeight) \div WeightScale
         IN  IF hit # {}
             THEN LET i == CHOOSE j \in hit : TRUE
                  IN  AddCollaborative([combined EXCEPT ![i] =
                                           Rec(@.product_id, cf_part, r.reason)],
                                       Tail(cf_recs))
             ELSE AddCollaborative(Append(combined, Rec(r.product_id, cf_part, r.reason)),
                                   Tail(cf_recs))

\* the merge without the sort of line 251
HybridMergeUnsorted(cf_recs, cb_recs, top_k) ==
    Prefix(AddContent(AddCollaborative(<<>>, cf_recs), cb_recs), top_k)

\* the merge without the [:top_k] of line 256
HybridMergeUncut(cf_recs, cb_recs, top_k) ==
    SortDesc(AddContent(AddCollaborative(<<>>, cf_recs), cb_recs))

HybridMerge(cf_recs, cb_recs, top_k) ==
    Prefix(SortDesc(AddContent(AddCollaborative(<<>>, cf_recs), cb_recs)), top_k)

\* the blend with the scorers asked for top_k // 3 items in place of the
\* top_k * 2 of lines 228-229
HybridRecommendationsNarrow(user_id, top_k) ==
    HybridMerge(CollaborativeRecommendations(user_id, top_k \div 3),
                ContentBasedRecommendations(user_id, top_k \div 3),
                top_k)

\* get_hybrid_recommendations
HybridRecommendations(user_id, top_k) ==
    HybridMerge(CollaborativeRecommendations(user_id, top_k * 2),
                ContentBasedRecommendations(user_id, top_k * 2),
                top_k)

\* the scores with the floor division i // len(top_products)
ColdStartScoresFloorDiv(top_products) ==
    [p \in 1..Len(top_products) |->
        Rec(top_products[p],
            ScoreUnit - (((p - 1) \div Len(top_products)) * ScoreUnit) \div 2,
            {"popular"})]

\* lines 279-284 of get_cold_start_recommendations:
\* score = 1.0 - (i / len(top_products)) * 0.5, i from 0
ColdStartScores(top_products) ==
    [p \in 1..Len(top_products) |->
        Rec(top_products[p],
            ScoreUnit - (((p - 1) * ScoreUnit) \div Len(top_products)) \div 2,
            {"popular"})]

\* the scores with top_k in place of len(top_products)
ColdStartRecommendationsByTopK(user_id, top_k) ==
    LET top_products == TopSellingProducts(top_k)
    IN  [p \in 1..Len(top_products) |->
            Rec(top_products[p],
                ScoreUnit - (((p - 1) * ScoreUnit) \div top_k) \div 2,
                {"popular"})]

\* get_cold_start_recommendations when the query of line 276 raises: the
\* except clause of lines 286-288 returns []
ColdStartRecommendationsNone(user_id, top_k) == <<>>

\* get_cold_start_recommendations
ColdStartRecommendations(user_id, top_k) ==
    ColdStartScores(TopSellingProducts(top_k))

(***************************************************************************)
(* Model loader                                                            *)
(***************************************************************************)

\* one of the three blocks of load_models: the object of the file, or None
\* when the file is missing or joblib.load / json.load raises
LoadArtifact(file) == IF file > 0 \/ file = Malformed THEN file ELSE 0

\* load_models that gives up all three objects when one read fails
LoadModelsAllOrNothing(files) ==
    IF \E a \in DOMAIN files : LoadArtifact(files[a]) = 0
    THEN [als |-> 0, tfidf |-> 0, mappings |-> 0]
    ELSE [als |-> files.als, tfidf |-> files.tfidf, mappings |-> files.mappings]

\* load_models
LoadModels(files) ==
    [als |-> LoadArtifact(files.als),
     tfidf |-> LoadArtifact(files.tfidf),
     mappings |-> LoadArtifact(files.mappings)]

(***************************************************************************)
(* Request handlers                                                        *)
(***************************************************************************)
TopKs == TopKMin..MaxK

WideKs == TopKMin..MaxWideK

Models == <<alsModel, tfidfData, mappings>>

NoResp ==
    [op |-> "none", user |-> 0, k |-> 0, found |-> FALSE, hit |-> FALSE,
     items |-> <<>>, method |-> "", path |-> "", calls |-> {}, size |-> 0,
     replaced |-> FALSE, status |-> 0]

\* the chain of lines 350-380 with the longer of the two standalone lists
\* taken at lines 366-371, the collaborative one on a tie
ComputeRecommendationsLonger(user_id, top_k) ==
    LET user_orders == UserOrderHistory(user_id)
        user_views == UserViewEvents(user_id)
        has_history == user_orders # <<>> \/ user_views # {}
        hybrid == HybridRecommendations(user_id, top_k)
        cf_recs == CollaborativeRecommendations(user_id, top_k)
        cb_recs == ContentBasedRecommendations(user_id, top_k)
        cold == ColdStartRecommendations(user_id, top_k)
        first ==
            IF has_history
            THEN IF Len(hybrid) < top_k \div 2
                 THEN IF cf_recs # <<>> /\ Len(cf_recs) >= Len(cb_recs)
                      THEN [recs |-> cf_recs, method |-> "collaborative",
                            path |-> "SingleModel"]
                      ELSE IF cb_recs # <<>>
                      THEN [recs |-> cb_recs, method |-> "content-based",
                            path |-> "SingleModel"]
                      ELSE [recs |-> hybrid, method |-> "hybrid", path |-> "Hybrid"]
                 ELSE [recs |-> hybrid, method |-> "hybrid", path |-> "Hybrid"]
            ELSE [recs |-> cold, method |-> "popular (cold-start)",
                  path |-> "ColdStart"]
        calls == IF has_history THEN {"cf", "cb"} ELSE {}
    IN  IF has_history /\ CollaborativeRaises(user_id)
        \* the exception leaves get_hybrid_recommendations at line 228 and is
        \* turned into HTTP 500 at lines 397-398: no list, no method
        THEN [recs |-> <<>>, method |-> "", path |-> "Error", calls |-> {"cf"}]
        ELSE IF first.recs = <<>>
        THEN [recs |-> cold, method |-> "popular (fallback)",
              path |-> "ColdStart", calls |-> calls]
        ELSE [recs |-> first.recs, method |-> first.method,
              path |-> first.path, calls |-> calls]

\* the chain of lines 350-380 with top_k / 2 in place of top_k // 2 at
\* line 362
ComputeRecommendationsHalf(user_id, top_k) ==
    LET user_orders == UserOrderHistory(user_id)
        user_views == UserViewEvents(user_id)
        has_history == user_orders # <<>> \/ user_views # {}
        hybrid == HybridRecommendations(user_id, top_k)
        cf_recs == CollaborativeRecommendations(user_id, top_k)
        cb_recs == ContentBasedRecommendations(user_id, top_k)
        cold == ColdStartRecommendations(user_id, top_k)
        first ==
            IF has_history
            THEN IF 2 * Len(hybrid) < top_k
                 THEN IF cf_recs # <<>>
                      THEN [recs |-> cf_recs, method |-> "collaborative",
                            path |-> "SingleModel"]
                      ELSE IF cb_recs # <<>>
                      THEN [recs |-> cb_recs, method |-> "content-based",
                            path |-> "SingleModel"]
                      ELSE [recs |-> hybrid, method |-> "hybrid", path |-> "Hybrid"]
                 ELSE [recs |-> hybrid, method |-> "hybrid", path |-> "Hybrid"]
            ELSE [recs |-> cold, method |-> "popular (cold-start)",
                  path |-> "ColdStart"]
        calls == IF has_history THEN {"cf", "cb"} ELSE {}
    IN  IF has_history /\ CollaborativeRaises(user_id)
        \* the exception leaves get_hybrid_recommendations at line 228 and is
        \* turned into HTTP 500 at lines 397-398: no list, no method
        THEN [recs |-> <<>>, method |-> "", path |-> "Error", calls |-> {"cf"}]
        ELSE IF first.recs = <<>>
        THEN [recs |-> cold, method |-> "popular (fallback)",
              path |-> "ColdStart", calls |-> calls]
        ELSE [recs |-> first.recs, method |-> first.method,
              path |-> first.path, calls |-> calls]

\* lines 350-380 of get_user_recommendations: what a request computes when
\* the cache does not answer it.  path and calls record the branch taken and
\* the scorers called.
ComputeRecommendations(user_id, top_k) ==
    LET user_orders == UserOrderHistory(user_id)
        user_views == UserViewEvents(user_id)
        has_history == user_orders # <<>> \/ user_views # {}
        hybrid == HybridRecommendations(user_id, top_k)
        cf_recs == CollaborativeRecommendations(user_id, top_k)
        cb_recs == ContentBasedRecommendations(user_id, top_k)
        cold == ColdStartRecommendations(user_id, top_k)
        first ==
            IF has_history
            THEN IF Len(hybrid) < top_k \div 2
                 THEN IF cf_recs # <<>>
                      THEN [recs |-> cf_recs, method |-> "collaborative",
                            path |-> "SingleModel"]
                      ELSE IF cb_recs # <<>>
                      THEN [recs |-> cb_recs, method |-> "content-based",
                            path |-> "SingleModel"]
                      ELSE [recs |-> hybrid, method |-> "hybrid", path |-> "Hybrid"]
                 ELSE [recs |-> hybrid, method |-> "hybrid", path |-> "Hybrid"]
            ELSE [recs |-> cold, method |-> "popular (cold-start)",
                  path |-> "ColdStart"]
        calls == IF has_history THEN {"cf", "cb"} ELSE {}
    IN  IF has_history /\ CollaborativeRaises(user_id)
        \* the exception leaves get_hybrid_recommendations at line 228 and is
        \* turned into HTTP 500 at lines 397-398: no list, no method
        THEN [recs |-> <<>>, method |-> "", path |-> "Error", calls |-> {"cf"}]
        ELSE IF first.recs = <<>>
        THEN [recs |-> cold, method |-> "popular (fallback)",
              path |-> "ColdStart", calls |-> calls]
        ELSE [recs |-> first.recs, method |-> first.method,
              path |-> first.path, calls |-> calls]

\* GET /recommendations/user/{user_id}?top_k=
GetUserRecommendations(user_id, top_k) ==
    LET got == GetCached(cache, user_id, top_k, now)
        computed == ComputeRecommendations(user_id, top_k)
    IN  /\ steps < MaxSteps
        /\ steps' = steps + 1
        /\ IF got.hit
           THEN /\ cache' = got.cache
                /\ resp' = [NoResp EXCEPT !.op = "recommend", !.user = user_id,
                               !.k = top_k, !.found = TRUE, !.hit = TRUE,
                               !.items = got.data, !.method = "hybrid (cached)",
                               !.path = "CacheHit"]
                /\ served' = [served EXCEPT ![CacheKey(user_id, top_k)] = got.data]
           ELSE IF computed.path = "Error"
           THEN /\ cache' = got.cache
                /\ resp' = [NoResp EXCEPT !.op = "recommend", !.user = user_id,
                               !.k = top_k, !.found = got.found,
                               !.path = "Error", !.calls = computed.calls]
                /\ served' = served
           ELSE /\ cache' = SetCached(got.cache, user_id, top_k, computed.recs,
                                      now, Models)
                /\ resp' = [NoResp EXCEPT !.op = "recommend", !.user = user_id,
                               !.k = top_k, !.found = got.found,
                               !.items = computed.recs, !.method = computed.method,
                               !.path = computed.path, !.calls = computed.calls]
                /\ served' = [served EXCEPT ![CacheKey(user_id, top_k)] = computed.recs]
        /\ UNCHANGED <<now, alsModel, tfidfData, mappings, store,
                       orders, views, otherSales>>

\* lines 412-440 of get_similar_products: the status the handler answers
\* with and, for 200, the list.  _tfidf_data['vectorizer'] of an object
\* without that key raises and ends in the except of lines 455-456.
SimilarProducts(product_id, top_k) ==
    IF tfidfData = 0 THEN [status |-> 503, recs |-> <<>>]
    ELSE IF tfidfData = Malformed THEN [status |-> 500, recs |-> <<>>]
    ELSE LET products == TfidfProducts(tfidfData)
             rows == [p \in 1..Len(products) |->
                         Rec(products[p],
                             ProfileSimilarity(tfidfData, {product_id}, products[p]),
                             {"cb"})]
         IN  IF product_id \notin Range(products)
             THEN [status |-> 404, recs |-> <<>>]
             ELSE [status |-> 200,
                   recs |-> SkipOwnTop(SortDesc(Reverse(rows)), {product_id},
                                       <<>>, top_k)]

\* GET /recommendations/product/{product_id}?top_k=
GetSimilarProducts(product_id, top_k) ==
    LET similar == SimilarProducts(product_id, top_k)
    IN  /\ steps < MaxSteps
        /\ steps' = steps + 1
        /\ resp' = [NoResp EXCEPT !.op = "similar", !.user = product_id,
                       !.k = top_k, !.items = similar.recs,
                       !.method = IF similar.status = 200 THEN "content-based" ELSE "",
                       !.status = similar.status]
        /\ UNCHANGED <<now, cache, alsModel, tfidfData, mappings, store,
                       orders, views, otherSales, served>>

\* refresh without line 470: the models are reloaded, the cache is kept
RefreshKeepsCache ==
    LET loaded == LoadModels(store)
    IN  /\ steps < MaxSteps
        /\ steps' = steps + 1
        /\ cache' = cache
        /\ alsModel' = loaded.als
        /\ tfidfData' = loaded.tfidf
        /\ mappings' = loaded.mappings
        /\ resp' = [NoResp EXCEPT !.op = "refresh", !.size = Len(cache),
                       !.replaced = (<<loaded.als, loaded.tfidf, loaded.mappings>>
                                     # Models)]
        /\ UNCHANGED <<now, store, orders, views, otherSales, served>>

\* refresh whose load stops after the first block of load_models
RefreshAlsOnly ==
    LET loaded == LoadModels(store)
    IN  /\ steps < MaxSteps
        /\ steps' = steps + 1
        /\ cache' = <<>>
        /\ alsModel' = loaded.als
        /\ tfidfData' = tfidfData
        /\ mappings' = mappings
        /\ resp' = [NoResp EXCEPT !.op = "refresh", !.size = Len(cache),
                       !.replaced = (<<loaded.als, tfidfData, mappings>> # Models)]
        /\ UNCHANGED <<now, store, orders, views, otherSales, served>>

\* POST /recommendations/refresh
RefreshRecommendations ==
    LET loaded == LoadModels(store)
    IN  /\ steps < MaxSteps
        /\ steps' = steps + 1
        /\ cache' = <<>>
        /\ alsModel' = loaded.als
        /\ tfidfData' = loaded.tfidf
        /\ mappings' = loaded.mappings
        /\ resp' = [NoResp EXCEPT !.op = "refresh", !.size = Len(cache),
                       !.replaced = (<<loaded.als, loaded.tfidf, loaded.mappings>>
                                     # Models)]
        /\ UNCHANGED <<now, store, orders, views, otherSales, served>>

\* GET /recommendations/cache/stats
GetCacheStats ==
    /\ steps < MaxSteps
    /\ steps' = steps + 1
    /\ resp' = [NoResp EXCEPT !.op = "stats", !.size = CacheSize(cache)]
    /\ UNCHANGED <<now, cache, alsModel, tfidfData, mappings, store,
                   orders, views, otherSales, served>>

(***************************************************************************)
(* The clock, the data store and the artifact files change outside the     *)
(* program                                                                 *)
(***************************************************************************)
\* the clock moves on by a second less than the TTL, or by the TTL
TickSteps == {CacheTtl - 1, CacheTtl}

Tick(d) ==
    /\ steps < MaxSteps
    /\ now + d <= MaxTime
    /\ now' = now + d
    /\ steps' = steps + 1
    /\ resp' = [NoResp EXCEPT !.op = "tick"]
    /\ UNCHANGED <<cache, alsModel, tfidfData, mappings, store,
                   orders, views, otherSales, served>>

EnvUnchanged == UNCHANGED <<now, cache, alsModel, tfidfData, mappings, served>>

\* a customer of Users orders a product: a new newest row of the history
PlaceOrder(u, id) ==
    /\ steps < MaxSteps
    /\ Len(orders[u]) < MaxOrders
    /\ orders' = [orders EXCEPT ![u] = <<id>> \o @]
    /\ steps' = steps + 1
    /\ resp' = [NoResp EXCEPT !.op = "order"]
    /\ UNCHANGED <<store, views, otherSales>>
    /\ EnvUnchanged

\* an order is cancelled or refunded: its row leaves the history
CancelOrder(u, i) ==
    /\ steps < MaxSteps
    /\ i \in 1..Len(orders[u])
    /\ orders' = [orders EXCEPT ![u] = SubSeq(@, 1, i - 1) \o SubSeq(@, i + 1, Len(@))]
    /\ steps' = steps + 1
    /\ resp' = [NoResp EXCEPT !.op = "cancel"]
    /\ UNCHANGED <<store, views, otherSales>>
    /\ EnvUnchanged

\* a view event is recorded
ViewProduct(u, id) ==
    /\ steps < MaxSteps
    /\ id \notin views[u]
    /\ views' = [views EXCEPT ![u] = @ \cup {id}]
    /\ steps' = steps + 1
    /\ resp' = [NoResp EXCEPT !.op = "view"]
    /\ UNCHANGED <<store, orders, otherSales>>
    /\ EnvUnchanged

\* a view event becomes older than the 30 day horizon
ViewExpires(u, id) ==
    /\ steps < MaxSteps
    /\ id \in views[u]
    /\ views' = [views EXCEPT ![u] = @ \ {id}]
    /\ steps' = steps + 1
    /\ resp' = [NoResp EXCEPT !.op = "viewgone"]
    /\ UNCHANGED <<store, orders, otherSales>>
    /\ EnvUnchanged

\* sales to other customers change the totals of a product
OtherSale(id, d) ==
    /\ steps < MaxSteps
    /\ otherSales[id] + d \in 0..MaxSold
    /\ otherSales' = [otherSales EXCEPT ![id] = @ + d]
    /\ steps' = steps + 1
    /\ resp' = [NoResp EXCEPT !.op = "sale"]
    /\ UNCHANGED <<store, orders, views>>
    /\ EnvUnchanged

\* a training job writes a file of the store, or the file is removed or
\* damaged
WriteArtifact(a, f) ==
    /\ steps < MaxSteps
    /\ store[a] # f
    /\ store' = [store EXCEPT ![a] = f]
    /\ steps' = steps + 1
    /\ resp' = [NoResp EXCEPT !.op = "write"]
    /\ UNCHANGED <<orders, views, otherSales>>
    /\ EnvUnchanged

(***************************************************************************)
(* The engine under requests, refreshes and a changing environment         *)
(***************************************************************************)
Artifacts == {"als", "tfidf", "mappings"}

AllFiles(g) == [a \in Artifacts |-> g]

InitStores == {AllFiles(1)}

InitViews == {[u \in Users |-> {}], [u \in Users |-> IF u = 1 THEN {1} ELSE {}]}

InitSales == {[id \in Items |-> 0], [id \in Items |-> IF id <= 2 THEN 1 ELSE 0]}

Init ==
    /\ now = 0
    /\ cache = <<>>
    /\ store \in InitStores
    /\ alsModel = LoadModels(store).als
    /\ tfidfData = LoadModels(store).tfidf
    /\ mappings = LoadModels(store).mappings
    /\ orders = [u \in Users |-> <<>>]
    /\ views \in InitViews
    /\ otherSales \in InitSales
    /\ resp = NoResp
    /\ served = [key \in Users \X WideKs |-> <<>>]
    /\ steps = 0

Next ==
    \/ \E u \in Users, k \in TopKs : GetUserRecommendations(u, k)
    \/ RefreshRecommendations
    \/ \E d \in TickSteps : Tick(d)
    \/ \E u \in Users, id \in Items : PlaceOrder(u, id)
    \/ \E u \in Users, i \in 1..MaxOrders : CancelOrder(u, i)
    \/ \E u \in Users, id \in Items : ViewProduct(u, id)
    \/ \E u \in Users, id \in Items : ViewExpires(u, id)
    \/ \E id \in Items, d \in {-1, 1} : OtherSale(id, d)
    \/ \E a \in Artifacts, f \in FileStates : WriteArtifact(a, f)

Spec == Init /\ [][Next]_vars

(***************************************************************************)
(* The cache near its capacity.  A cache of n entries is what n requests   *)
(* of n distinct (user, top_k) pairs leave behind; the users beyond Users  *)
(* only fill the cache.  Entry i was stored at time (i - 1) * spread.      *)
(***************************************************************************)
SampleLists ==
    {<<>>, <<Rec(2, ScoreUnit \div 2, {"cf"}), Rec(3, ScoreUnit \div 4, {"cb"})>>}

FillKey(i) == CacheKey(NumUsers + 1 + ((i - 1) \div TopKMax), 1 + ((i - 1) % TopKMax))

FilledCache(n, spread) ==
    [i \in 1..n |-> [key |-> FillKey(i), data |-> <<Rec(1, ScoreUnit, {"popular"})>>,
                     ts |-> (i - 1) * spread, models |-> <<1, 1, 1>>]]

FillSizes == {CacheCapacity - 1, CacheCapacity}

FillSpreads == {0, 4}

\* the keys the operations below use: the first entry of a filled cache and
\* two keys that are not in it
ProbeKeys == {FillKey(1), CacheKey(1, 1), CacheKey(2, 1)}

\* one call of get_cached_recommendations
CacheGet(key) ==
    LET got == GetCached(cache, key[1], key[2], now)
    IN  /\ steps < MaxSteps
        /\ steps' = steps + 1
        /\ cache' = got.cache
        /\ resp' = [NoResp EXCEPT !.op = "get", !.user = key[1], !.k = key[2],
                       !.found = got.found, !.hit = got.hit, !.items = got.data]
        /\ UNCHANGED <<now, alsModel, tfidfData, mappings, store,
                       orders, views, otherSales, served>>

\* one call of set_cached_recommendations
CachePut(key, recs) ==
    /\ steps < MaxSteps
    /\ steps' = steps + 1
    /\ cache' = SetCached(cache, key[1], key[2], recs, now, Models)
    /\ resp' = [NoResp EXCEPT !.op = "put", !.user = key[1], !.k = key[2],
                   !.items = recs, !.size = Len(cache)]
    /\ UNCHANGED <<now, alsModel, tfidfData, mappings, store,
                   orders, views, otherSales, served>>

InitCache ==
    /\ \E n \in FillSizes, spread \in FillSpreads :
          /\ cache = FilledCache(n, spread)
          /\ now = (n - 1) * spread
    /\ store = AllFiles(1)
    /\ alsModel = 1
    /\ tfidfData = 1
    /\ mappings = 1
    /\ orders = [u \in Users |-> <<>>]
    /\ views = [u \in Users |-> {}]
    /\ otherSales = [id \in Items |-> 0]
    /\ resp = NoResp
    /\ served = [key \in Users \X WideKs |-> <<>>]
    /\ steps = 0

NextCache ==
    \/ \E u \in Users : steps < MaxCacheOps /\ GetUserRecommendations(u, TopKMin)
    \/ \E key \in ProbeKeys : steps < MaxCacheOps /\ CacheGet(key)
    \/ \E key \in ProbeKeys, recs \in SampleLists :
          steps < MaxCacheOps /\ CachePut(key, recs)
    \/ steps < MaxCacheOps /\ RefreshRecommendations
    \/ steps < MaxCacheOps /\ GetCacheStats
    \/ \E d \in TickSteps : steps < MaxCacheOps /\ Tick(d)

SpecCache == InitCache /\ [][NextCache]_vars

(***************************************************************************)
(* One request against each of a set of environments: the files the        *)
(* models were loaded from, the histories and the sales                    *)
(***************************************************************************)
EngineStores ==
    {f \in [Artifacts -> FileStates] :
        /\ f.als \in {Malformed, 0, 1, 2}
        /\ f.tfidf \in {Malformed, -1, 1, 2}
        /\ f.mappings \in {Malformed, 0, 1, 2}}

\* n rows of one product: a product ordered n times
Repeat(id, n) == [i \in 1..n |-> id]

\* histories of user 1 longer than head(5): five rows of one product before
\* a row of another
LongHistories == {Repeat(1, SeedCount) \o <<NumItems>>, Repeat(NumItems, SeedCount) \o <<1>>}

EngineOrders ==
    {[u \in Users |-> IF u = 1 THEN o ELSE <<>>] :
        o \in {<<>>, <<1>>, <<3, 1>>, <<4>>} \cup LongHistories}
    \cup {[u \in Users |-> <<2>>]}

EngineViews ==
    {[u \in Users |-> IF u = 1 THEN v ELSE {}] : v \in {{}, {1}, {2, 3}}}

EngineSales ==
    {[id \in Items |-> IF id <= n THEN MaxSold ELSE 0] : n \in 0..NumItems}
    \cup {[id \in Items |-> IF id = NumItems THEN MaxSold ELSE 0]}

InitEngine ==
    /\ now = 0
    /\ cache = <<>>
    /\ store \in EngineStores
    /\ alsModel = LoadModels(store).als
    /\ tfidfData = LoadModels(store).tfidf
    /\ mappings = LoadModels(store).mappings
    /\ orders \in EngineOrders
    /\ views \in EngineViews
    /\ otherSales \in EngineSales
    /\ resp = NoResp
    /\ served = [key \in Users \X WideKs |-> <<>>]
    /\ steps = 0

NextEngine ==
    \E u \in Users, k \in WideKs :
        steps < MaxEngineSteps /\ GetUserRecommendations(u, k)

SpecEngine == InitEngine /\ [][NextEngine]_vars

(***************************************************************************)
(* One similar-products request against each state of the three files; the *)
(* product asked for is one of Items or an id no catalog has               *)
(***************************************************************************)
ProductIds == 1..(NumItems + 1)

InitSimilar ==
    /\ now = 0
    /\ cache = <<>>
    /\ store \in EngineStores
    /\ alsModel = LoadModels(store).als
    /\ tfidfData = LoadModels(store).tfidf
    /\ mappings = LoadModels(store).mappings
    /\ orders = [u \in Users |-> <<>>]
    /\ views = [u \in Users |-> {}]
    /\ otherSales = [id \in Items |-> 0]
    /\ resp = NoResp
    /\ served = [key \in Users \X WideKs |-> <<>>]
    /\ steps = 0

NextSimilar ==
    \E id \in ProductIds, k \in WideKs :
        steps < MaxEngineSteps /\ GetSimilarProducts(id, k)

SpecSimilar == InitSimilar /\ [][NextSimilar]_vars

(***************************************************************************)
(* Properties                                                              *)
(***************************************************************************)
RespKey(r) == CacheKey(r.user, r.k)

\* positions of the entries of a key
IndexesOf(c, key) == {i \in 1..Len(c) : c[i].key = key}

\* a number for a key, one-to-one for top_k up to TopKMax
KeyCode(key) == key[1] * (TopKMax + 1) + key[2]

KeyCodes(c) == {KeyCode(c[i].key) : i \in 1..Len(c)}

\* C1: a read of the cache returns the stored list exactly when an entry of
\* the key exists and is younger than the TTL, and None otherwise; a read of
\* an expired entry removes that entry and no other, and any other read
\* leaves the cache as it is.
C1_GetContract ==
    [][resp'.op = "get" =>
        \E old \in {IndexesOf(cache, RespKey(resp'))} :
        \E fresh \in {{i \in old : now - cache[i].ts < CacheTtl}} :
            /\ resp'.hit <=> fresh # {}
            /\ resp'.hit => \E i \in fresh : resp'.items = cache[i].data
            /\ IF old # {} /\ fresh = {}
               THEN /\ Len(cache') = Len(cache) - 1
                    /\ \A i \in 1..Len(cache') :
                          cache'[i] = cache[IF \E j \in old : j <= i THEN i + 1 ELSE i]
               ELSE cache' = cache]_vars

\* an expired entry was read, and removed from a cache of many entries
C1_Witness ==
    /\ resp.op = "get"
    /\ resp.found
    /\ ~resp.hit
    /\ Len(cache) >= CacheCapacity - 2
    /\ IndexesOf(cache, RespKey(resp)) = {}

\* the entries of c whose key code is in codes and whose key is not key,
\* in the order of c
Others(c, codes, key) ==
    SelectSeq(c, LAMBDA e : e.key # key /\ KeyCode(e.key) \in codes)

\* C2: a write stores the list under the key with the current time; when
\* that makes more than 1000 entries, exactly 200 entries leave, at most 801
\* stay, no entry that stays is older than one that leaves, and the entries
\* that stay are unchanged; otherwise no entry leaves.
C2_PutContract ==
    [][resp'.op = "put" =>
        \E key \in {RespKey(resp')} :
        \E before \in {KeyCodes(cache) \cup {KeyCode(key)}} :
        \E after \in {KeyCodes(cache')} :
        \E evicted \in {before \ after} :
        \E tsEvicted \in {{cache[i].ts : i \in {j \in 1..Len(cache) :
                                                  KeyCode(cache[j].key) \in evicted}}} :
        \E tsAfter \in {{cache'[i].ts : i \in 1..Len(cache')}} :
            /\ \E i \in 1..Len(cache') :
                  /\ cache'[i].key = key
                  /\ cache'[i].ts = now
                  /\ cache'[i].data = resp'.items
            /\ after \subseteq before
            /\ Len(cache') = Cardinality(after)
            /\ Others(cache', after, key) = Others(cache, after, key)
            /\ IF Cardinality(before) > CacheCapacity
               THEN /\ Cardinality(evicted) = EvictCount
                    /\ Len(cache') <= CacheCapacity + 1 - EvictCount
                    /\ \A a \in tsEvicted : \A b \in tsAfter : a <= b
               ELSE evicted = {}]_vars

\* the 1001st key was written and 801 entries are left
C2_Witness ==
    /\ resp.op = "put"
    /\ resp.size = CacheCapacity
    /\ Len(cache) = CacheCapacity + 1 - EvictCount

\* C3: when a refresh has returned, cache_stats reports size 0
C3_RefreshEmptiesCache ==
    resp.op = "refresh" => CacheSize(cache) = 0

\* a refresh has cleared a cache that held entries
C3_Witness ==
    /\ resp.op = "refresh"
    /\ resp.size >= CacheCapacity - EvictCount
    /\ CacheSize(cache) = 0

\* C4: every list in the cache was computed from the models that are loaded
\* now: a refresh leaves no list of the models it replaced.
C4_NoStaleEntries ==
    \A i \in 1..Len(cache) : cache[i].models = Models

\* a refresh has replaced the models and dropped the lists computed from
\* the old ones
C4_Witness ==
    /\ resp.op = "refresh"
    /\ resp.replaced
    /\ resp.size > 0
    /\ \E key \in DOMAIN served : served[key] # <<>>

\* C5: a request whose key has an entry younger than the TTL (stored by an
\* earlier request, not cleared or evicted since) returns the list that the
\* previous request of the key returned.
C5_RepeatWithinTtl ==
    [][(/\ resp'.op = "recommend"
        /\ \E i \in 1..Len(cache) :
              cache[i].key = RespKey(resp') /\ now - cache[i].ts < CacheTtl)
       => resp'.items = served[RespKey(resp')]]_vars

\* the list was returned again although a computation would now give
\* another one
C5_Witness ==
    /\ resp.op = "recommend"
    /\ resp.hit
    /\ resp.items # <<>>
    /\ resp.items # ComputeRecommendations(resp.user, resp.k).recs

NoHistory(u) == orders[u] = <<>> /\ views[u] = {}

OnlyPopularDecreasing(items) ==
    /\ \A i \in 1..Len(items) : items[i].reason = {"popular"}
    /\ \A i \in 1..(Len(items) - 1) : items[i].score > items[i + 1].score

\* C6 as stated: every response to a user without orders and views holds
\* popular items only, with strictly decreasing scores, and no scorer ran.
C6_Original ==
    (resp.op = "recommend" /\ NoHistory(resp.user))
    => (OnlyPopularDecreasing(resp.items) /\ resp.calls = {})

\* C6: every response to a user without orders and views that is not served
\* from the cache holds popular items only, with strictly decreasing scores,
\* and no scorer ran.
C6_ColdStartOnMiss ==
    (resp.op = "recommend" /\ ~resp.hit /\ NoHistory(resp.user))
    => (OnlyPopularDecreasing(resp.items) /\ resp.calls = {})

\* a user without history got two or more popular items
C6_Witness ==
    /\ resp.op = "recommend"
    /\ ~resp.hit
    /\ NoHistory(resp.user)
    /\ Len(resp.items) >= 2

\* C7: item i (from 0) of a cold-start list of count items is item i of the
\* popularity list, has score 1.0 - (i / count) * 0.5 and the tag popular.
C7_ColdStartFormula ==
    (resp.op = "recommend" /\ resp.path = "ColdStart")
    => \E count \in {Len(resp.items)} :
          /\ count = Len(TopSellingProducts(resp.k))
          /\ \A p \in 1..count :
                /\ resp.items[p].product_id = TopSellingProducts(resp.k)[p]
                /\ resp.items[p].score * 2 * count
                       = 2 * count * ScoreUnit - (p - 1) * ScoreUnit
                /\ resp.items[p].reason = {"popular"}

\* fewer items were returned than asked for, and more than one
C7_Witness ==
    /\ resp.op = "recommend"
    /\ resp.path = "ColdStart"
    /\ Len(resp.items) >= 2
    /\ Len(resp.items) < resp.k

Near(score, milli) == Abs(score - milli * (ScoreUnit \div 1000)) <= ScoreUnit \div 1000

\* C8 as stated: the scores of a cold-start list run from 1.0 for the first
\* item to 0.5 for the last, and four items score 1.0, 0.833, 0.667, 0.5.
C8_OneDownToHalf ==
    (resp.op = "recommend" /\ resp.path = "ColdStart" /\ Len(resp.items) >= 2)
    => /\ resp.items[1].score = ScoreUnit
       /\ resp.items[Len(resp.items)].score = ScoreUnit \div 2
       /\ Len(resp.items) = 4 =>
             /\ Near(resp.items[2].score, 833)
             /\ Near(resp.items[3].score, 667)

\* the candidate of a product in a scorer's list, as a set
Candidates(recs, id) == {recs[j] : j \in {i \in 1..Len(recs) : recs[i].product_id = id}}

\* C9: an item of a hybrid list has the score cf * 0.7 if only the
\* collaborative list holds it, cb * 0.3 if only the content list does and
\* cf * 0.7 + cb * 0.3 if both do; it has the tags of the lists that hold it,
\* and the tag hybrid exactly when both do.  The list is made of the items
\* of the two lists.
C9_HybridMergeRule ==
    (resp.op = "recommend" /\ resp.path = "Hybrid")
    => \E cf_recs \in {CollaborativeRecommendations(resp.user, resp.k * 2)} :
       \E cb_recs \in {ContentBasedRecommendations(resp.user, resp.k * 2)} :
          \A p \in 1..Len(resp.items) :
             \E it \in {resp.items[p]} :
             \E cf \in {Candidates(cf_recs, it.product_id)} :
             \E cb \in {Candidates(cb_recs, it.product_id)} :
                /\ Cardinality(cf) <= 1 /\ Cardinality(cb) <= 1
                /\ cf # {} \/ cb # {}
                /\ \A x \in cf : \A y \in cb :
                      it.score * WeightScale = x.score * CfWeight + y.score * CbWeight
                /\ cb = {} => \A x \in cf : it.score * WeightScale = x.score * CfWeight
                /\ cf = {} => \A y \in cb : it.score * WeightScale = y.score * CbWeight
                /\ "hybrid" \in it.reason <=> (cf # {} /\ cb # {})
                /\ "cf" \in it.reason <=> cf # {}
                /\ "cb" \in it.reason <=> cb # {}

\* an item with collaborative score 0.80 and content score 0.60 was blended
\* to 0.74 and carries the three tags
C9_Witness ==
    /\ resp.op = "recommend"
    /\ resp.path = "Hybrid"
    /\ \E p \in 1..Len(resp.items) :
          /\ resp.items[p].score = 74 * (ScoreUnit \div 100)
          /\ resp.items[p].reason = {"cf", "cb", "hybrid"}
          /\ \E x \in Candidates(CollaborativeRecommendations(resp.user, resp.k * 2),
                                 resp.items[p].product_id) :
                x.score = 80 * (ScoreUnit \div 100)
          /\ \E y \in Candidates(ContentBasedRecommendations(resp.user, resp.k * 2),
                                 resp.items[p].product_id) :
                y.score = 60 * (ScoreUnit \div 100)

\* C10: a returned list has at most top_k items and no product twice,
\* whichever branch of the request produced it.
C10_SizeAndUnique ==
    resp.op = "recommend"
    => /\ Len(resp.items) <= resp.k
       /\ \A i, j \in 1..Len(resp.items) :
             resp.items[i].product_id = resp.items[j].product_id => i = j

\* a full list of two or more items came from the cache
C10_Witness ==
    /\ resp.op = "recommend"
    /\ resp.path = "CacheHit"
    /\ resp.k >= 2
    /\ Len(resp.items) = resp.k

NonIncreasing(items) ==
    \A i \in 1..(Len(items) - 1) : items[i].score >= items[i + 1].score

StrictlyDecreasing(items) ==
    \A i \in 1..(Len(items) - 1) : items[i].score > items[i + 1].score

\* C11 as stated: in every returned list each item has a strictly greater
\* score than the item after it.
C11_StrictlyDescending ==
    resp.op = "recommend" => StrictlyDecreasing(resp.items)

\* C11: in every returned list, and in every list the cache holds for a
\* later hit, no item has a smaller score than the item after it.
C11_DescendingWithTies ==
    /\ resp.op = "recommend" => NonIncreasing(resp.items)
    /\ \A i \in 1..Len(cache) : NonIncreasing(cache[i].data)

\* a list with two adjacent items of the same score was returned and cached
C11_Witness ==
    /\ resp.op = "recommend"
    /\ \E i \in 1..(Len(resp.items) - 1) :
          resp.items[i].score = resp.items[i + 1].score
    /\ \E i \in 1..Len(cache) : cache[i].data = resp.items

TerminalStates == {"CacheHit", "Hybrid", "SingleModel", "ColdStart"}

HasHistory(u) == orders[u] # <<>> \/ views[u] # {}

\* C12 as stated: every request ends in one of the four terminal states of
\* the fallback chain.
C12_OneTerminalState ==
    resp.op = "recommend" => resp.path \in TerminalStates

PopularExists == TopSellingProducts(TopKMin) # <<>>

\* C13 as stated: while a popular item exists, every returned list, one
\* from the cache included, is non-empty.
C13_NeverEmptyWithSales ==
    (resp.op = "recommend" /\ resp.path \in TerminalStates /\ PopularExists)
    => resp.items # <<>>

\* C13: while a popular item exists, every list computed by a request that
\* the cache did not answer is non-empty.
C13_NonEmptyOnMiss ==
    (/\ resp.op = "recommend"
     /\ resp.path \in TerminalStates \ {"CacheHit"}
     /\ PopularExists)
    => resp.items # <<>>

\* a user with history got nothing from the scorers and was given the
\* popular items
C13_Witness ==
    /\ resp.op = "recommend"
    /\ resp.method = "popular (fallback)"
    /\ HasHistory(resp.user)
    /\ PopularExists
    /\ resp.items # <<>>

\* C14 as stated: a user with history whose request is computed while the
\* collaborative model is not loaded gets the content scorer's own list:
\* method content-based, scores as the scorer gave them, every item tagged
\* cb only.
C14_ContentScorerAlone ==
    (/\ resp.op = "recommend"
     /\ resp.path \in TerminalStates \ {"CacheHit"}
     /\ HasHistory(resp.user)
     /\ alsModel = 0)
    => /\ resp.method = "content-based"
       /\ resp.items = ContentBasedRecommendations(resp.user, resp.k)
       /\ \A p \in 1..Len(resp.items) : resp.items[p].reason = {"cb"}

\* C14: such a request goes through the blend first.  With cb2 the content
\* scorer's list for 2 * top_k cut to top_k: if cb2 is empty the popular
\* items are returned; if cb2 has at least top_k // 2 items it is returned
\* with method hybrid and every score multiplied by 0.3; otherwise the
\* content scorer's list for top_k is returned with method content-based.
\* Every item of the two latter lists is tagged cb only.
C14_BlendOfContentAlone ==
    (/\ resp.op = "recommend"
     /\ resp.path \in TerminalStates \ {"CacheHit"}
     /\ HasHistory(resp.user)
     /\ alsModel = 0)
    => \E cb2 \in {Prefix(ContentBasedRecommendations(resp.user, resp.k * 2), resp.k)} :
       \E cb \in {ContentBasedRecommendations(resp.user, resp.k)} :
          /\ \A p \in 1..Len(resp.items) :
                resp.items[p].reason \cap {"cf", "hybrid"} = {}
          /\ IF cb2 = <<>>
             THEN /\ resp.path = "ColdStart"
                  /\ \A p \in 1..Len(resp.items) : resp.items[p].reason = {"popular"}
             ELSE IF Len(cb2) >= resp.k \div 2
             THEN /\ resp.method = "hybrid"
                  /\ Len(resp.items) = Len(cb2)
                  /\ \A p \in 1..Len(cb2) :
                        /\ resp.items[p].product_id = cb2[p].product_id
                        /\ resp.items[p].score * WeightScale = cb2[p].score * CbWeight
                        /\ resp.items[p].reason = {"cb"}
             ELSE /\ resp.method = "content-based"
                  /\ resp.items = cb
                  /\ \A p \in 1..Len(cb) : cb[p].reason = {"cb"}

\* the content scorer's list came back as a blend, its scores at 0.3 of
\* what the scorer gave
C14_Witness ==
    /\ resp.op = "recommend"
    /\ HasHistory(resp.user)
    /\ alsModel = 0
    /\ resp.method = "hybrid"
    /\ resp.items # <<>>
    /\ resp.items[1].score > 0
    /\ resp.items[1].score * WeightScale
           = ContentBasedRecommendations(resp.user, resp.k * 2)[1].score * CbWeight

\* the method strings of get_user_recommendations that name the popular or
\* cold-start origin
PopularMethods == {"popular (cold-start)", "popular (fallback)"}

\* C15 as stated: every response to a user without orders and views has a
\* method that names the popular / cold-start origin.
C15_MethodTellsOrigin ==
    (resp.op = "recommend" /\ resp.path \in TerminalStates /\ NoHistory(resp.user))
    => resp.method \in PopularMethods

\* C16: a request is one step.  A request whose key has an entry younger
\* than the TTL computes nothing and leaves the cache as it is; any other
\* answered request stores its list once, under the current time.  After
\* every request each key has at most one entry and the cache holds at most
\* 1000 entries: the insert that makes 1001 and the eviction of 200 are the
\* same step.
C16_RequestIsOneStep ==
    [][resp'.op = "recommend" =>
        \E key \in {RespKey(resp')} :
        \E fresh \in {{i \in IndexesOf(cache, key) : now - cache[i].ts < CacheTtl}} :
        \E stored \in {IndexesOf(cache', key)} :
            /\ fresh # {} => (resp'.hit /\ cache' = cache)
            /\ (fresh = {} /\ resp'.path # "Error")
                  => /\ ~resp'.hit
                     /\ Cardinality(stored) = 1
                     /\ \A i \in stored : /\ cache'[i].ts = now
                                          /\ cache'[i].data = resp'.items
            /\ Cardinality(stored) <= 1
            /\ Cardinality(KeyCodes(cache')) = Len(cache')
            /\ Len(cache') <= CacheCapacity
            /\ (Len(cache) = CacheCapacity /\ IndexesOf(cache, key) = {}
                  /\ resp'.path # "Error")
                  => Len(cache') = CacheCapacity + 1 - EvictCount]_vars

\* a request stored the 1001st key and the eviction ran in the same step
C16_Witness ==
    /\ resp.op = "recommend"
    /\ ~resp.hit
    /\ Len(cache) = CacheCapacity + 1 - EvictCount
    /\ IndexesOf(cache, RespKey(resp)) # {}

Loaded == [als |-> alsModel, tfidf |-> tfidfData, mappings |-> mappings]

\* a read of load_models fails when the file is missing or does not load
ReadFails(file) == file \in {-1, 0}

\* C17 as stated: a refresh during which a read fails leaves the three
\* objects in memory as they were.
C17_KeepsModelsOnFailure ==
    [][(resp'.op = "refresh" /\ \E a \in Artifacts : ReadFails(store[a]))
       => Loaded' = Loaded]_vars

\* C17: a refresh assigns each of the three objects from its own read: None
\* when the read fails, what the file holds otherwise, whatever the other
\* two reads did and whatever was loaded before.
C17_EachReadDecides ==
    [][resp'.op = "refresh" =>
        \A a \in Artifacts :
            Loaded'[a] = IF ReadFails(store[a]) THEN 0 ELSE store[a]]_vars

\* a refresh lost one object to a failed read and replaced another by a new
\* generation
C17_Witness ==
    /\ resp.op = "refresh"
    /\ \E a, b \in Artifacts :
          /\ ReadFails(store[a])
          /\ Loaded[a] = 0
          /\ Loaded[b] = 2
          /\ store[b] = 2

\* C18: a request leaves the three objects as they are and stamps the list
\* it stores with the triple it ran on; the triple changes in a refresh step
\* only, and then every object of the triple comes from that refresh.
C18_OneGenerationPerRequest ==
    [][/\ resp'.op = "recommend" => Loaded' = Loaded
       /\ (resp'.op = "recommend" /\ ~resp'.hit /\ resp'.path # "Error")
             => \A i \in IndexesOf(cache', RespKey(resp')) : cache'[i].models = Models
       /\ Loaded' # Loaded
             => /\ resp'.op = "refresh"
                /\ \A a \in Artifacts :
                      Loaded'[a] = IF ReadFails(store[a]) THEN 0 ELSE store[a]]_vars

\* a request was computed on the triple that a refresh had put in place
C18_Witness ==
    /\ resp.op = "recommend"
    /\ ~resp.hit
    /\ resp.items # <<>>
    /\ Models # <<1, 1, 1>>
    /\ \E i \in 1..Len(cache) : cache[i].data = resp.items /\ cache[i].models = Models

\* C19: after load_models each object is loaded exactly when its own file
\* is there and loads, whatever the state of the other two files.
C19_IndependentLoads ==
    \A a \in Artifacts :
        /\ Loaded[a] # 0 <=> ~ReadFails(store[a])
        /\ Loaded[a] # 0 => Loaded[a] = store[a]

\* one file was missing, one did not load, and the third was loaded and used
C19_Witness ==
    /\ resp.op = "recommend"
    /\ store.als = 0 /\ alsModel = 0
    /\ store.tfidf = -1 /\ tfidfData = 0
    /\ store.mappings = 1 /\ mappings = 1

\* C20 as stated: a request always returns a list and a method string,
\* whatever the state of the models and the mappings.
C20_NoScorerErrorSurfaces ==
    resp.op = "recommend" => (resp.path # "Error" /\ resp.method # "")

\* C21 as stated: with the content model loaded, a similar-products request
\* is answered with a list (possibly empty) and method content-based,
\* whether or not the content model knows the product.
C21_UnknownItemAnswered ==
    (resp.op = "similar" /\ tfidfData \in Gens)
    => (resp.status = 200 /\ resp.method = "content-based")

\* the reason codes the tests of the repository accept
ValidReasons == {"cf", "cb", "hybrid", "popular"}

\* C22 as stated: every item of every returned list has at least one reason,
\* all of them valid codes, and a score that is not negative.
C22_ReasonsAndScoreSign ==
    (resp.op = "recommend" /\ resp.path \in TerminalStates)
    => \A p \in 1..Len(resp.items) :
          /\ resp.items[p].reason # {}
          /\ resp.items[p].reason \subseteq ValidReasons
          /\ resp.items[p].score >= 0

\* a request of a user with history that the cache did not answer and that
\* got through the scorers, with the blend under the threshold of line 362
UnderFilled ==
    /\ resp.op = "recommend"
    /\ resp.path \in TerminalStates \ {"CacheHit"}
    /\ HasHistory(resp.user)
    /\ Len(HybridRecommendations(resp.user, resp.k)) < resp.k \div 2

\* C23 as stated: after an under-filled blend the longer of the two
\* standalone lists is returned if it is not empty, the collaborative one
\* when both have the same length.
C23_LongerScorerWins ==
    UnderFilled
    => \E cf \in {CollaborativeRecommendations(resp.user, resp.k)} :
       \E cb \in {ContentBasedRecommendations(resp.user, resp.k)} :
          IF Len(cb) > Len(cf)
          THEN resp.items = cb /\ resp.method = "content-based"
          ELSE cf # <<>> => (resp.items = cf /\ resp.method = "collaborative")

\* C23: after an under-filled blend the collaborative scorer's standalone
\* list is returned whenever it is not empty, however many items the content
\* scorer's list has; the content scorer's list is returned only when the
\* collaborative one is empty; when both are empty the popular items are
\* returned.
C23_CollaborativeFirst ==
    UnderFilled
    => \E cf \in {CollaborativeRecommendations(resp.user, resp.k)} :
       \E cb \in {ContentBasedRecommendations(resp.user, resp.k)} :
          IF cf # <<>>
          THEN /\ resp.path = "SingleModel"
               /\ resp.items = cf
               /\ resp.method = "collaborative"
          ELSE IF cb # <<>>
          THEN /\ resp.path = "SingleModel"
               /\ resp.items = cb
               /\ resp.method = "content-based"
          ELSE resp.path = "ColdStart"

\* the collaborative list was returned although the content scorer's list
\* is longer
C23_Witness ==
    /\ UnderFilled
    /\ resp.method = "collaborative"
    /\ resp.items # <<>>
    /\ Len(ContentBasedRecommendations(resp.user, resp.k)) > Len(resp.items)

\* a request of a user with history that the cache did not answer and that
\* got through the scorers
Computed ==
    /\ resp.op = "recommend"
    /\ resp.path \in TerminalStates \ {"CacheHit"}
    /\ HasHistory(resp.user)

C25_NoInteractedItem ==
    (resp.op = "recommend" /\ resp.path \in {"Hybrid", "SingleModel"})
    => \E own \in {Range(UserOrderHistory(resp.user)) \cup UserViewEvents(resp.user)} :
          /\ \A p \in 1..Len(resp.items) :
                "cf" \in resp.items[p].reason => resp.items[p].product_id \notin own
          /\ \A r \in Range(CollaborativeRecommendations(resp.user, resp.k)) :
                r.product_id \notin own

\* C25: no item of the user's order history is in the collaborative
\* scorer's list, for top_k or for 2 * top_k, nor in a blend or a standalone
\* answer.  Items the user has only viewed are not filtered by the
\* collaborative scorer.
C25_NoPurchasedItem ==
    (resp.op = "recommend" /\ resp.path \in {"Hybrid", "SingleModel"})
    => \E purchased \in {Range(UserOrderHistory(resp.user))} :
          /\ \A p \in 1..Len(resp.items) : resp.items[p].product_id \notin purchased
          /\ \A r \in Range(CollaborativeRecommendations(resp.user, resp.k))
                       \cup Range(CollaborativeRecommendations(resp.user, 2 * resp.k)) :
                r.product_id \notin purchased

\* a blend holds, from the collaborative scorer, an item the user has viewed,
\* next to neighbours of a purchased item that were filtered
C25_Witness ==
    /\ resp.op = "recommend"
    /\ resp.path = "Hybrid"
    /\ UserOrderHistory(resp.user) # <<>>
    /\ \E p \in 1..Len(resp.items) :
          /\ "cf" \in resp.items[p].reason
          /\ resp.items[p].product_id \in UserViewEvents(resp.user)

Min(a, b) == IF a < b THEN a ELSE b

\* C26 as stated: the collaborative scorer's list is the one that the five
\* most recent distinct products of the history that are in the item index
\* give as seeds.
C26_DistinctIndexedSeeds ==
    (Computed /\ alsModel # 0 /\ mappings \in Gens)
    => CollaborativeRecommendations(resp.user, resp.k)
         = CollaborativeRecommendationsDistinct(resp.user, resp.k)

\* C26: the seeds are the products of the first five rows of the order
\* history, newest first: a product ordered again takes a row each time, a
\* product missing from the item index takes its row and seeds nothing, and
\* views seed nothing.  The scorer's list holds the neighbours of these
\* seeds and of no other row, each product once with the best of its
\* scores, top_k of them at most; it is empty when none of the five rows is
\* in the index.
C26_FirstFiveRows ==
    (Computed /\ alsModel # 0 /\ mappings \in Gens
       /\ resp.user \in UserIndex(mappings))
    => \E rows \in {UserOrderHistory(resp.user)} :
       \E seeds \in {{rows[i] : i \in 1..Min(SeedCount, Len(rows))}} :
       \E pool \in {UNION {Range(SeedNeighbours(alsModel, mappings, seed,
                                                Range(rows), resp.k)) : seed \in seeds}} :
       \E cf \in {CollaborativeRecommendations(resp.user, resp.k)} :
          /\ \A r \in Range(cf) :
                /\ r \in pool
                /\ \A q \in pool : q.product_id = r.product_id => q.score <= r.score
          /\ Len(cf) = Min(resp.k, Cardinality({q.product_id : q \in pool}))
          /\ seeds \cap DOMAIN ItemIndex(mappings) = {} => cf = <<>>
          /\ resp.method = "collaborative" => resp.items = cf

\* the sixth row of a history is an indexed product that none of the first
\* five rows holds, and the collaborative scorer gave items
C26_Witness ==
    /\ Computed
    /\ alsModel # 0
    /\ mappings \in Gens
    /\ \E rows \in {UserOrderHistory(resp.user)} :
          /\ Len(rows) > SeedCount
          /\ rows[SeedCount + 1] \in DOMAIN ItemIndex(mappings)
          /\ rows[SeedCount + 1] \notin {rows[i] : i \in 1..SeedCount}
    /\ \E p \in 1..Len(resp.items) : "cf" \in resp.items[p].reason

\* the products of the loaded term-weight matrix, or none when no usable
\* matrix is loaded
Catalog == IF tfidfData \in Gens THEN Range(TfidfProducts(tfidfData)) ELSE {}

\* the user's purchased-or-viewed set
Interacted(u) == Range(UserOrderHistory(u)) \cup UserViewEvents(u)

\* a profile vector exists: a matrix is loaded and holds a row of one of the
\* user's products
HasProfile(u) == Interacted(u) \cap Catalog # {}

\* C27 as stated: the content scorer's list is empty only when there is no
\* profile vector.
C27_EmptyOnlyWithoutProfile ==
    Computed
    => (ContentBasedRecommendations(resp.user, resp.k) = <<>>
        => ~HasProfile(resp.user))

\* C27: without a profile vector the content scorer's list is empty.  With
\* one it holds the top_k most similar of the catalog products outside the
\* user's purchased-or-viewed set, or all of them when they are fewer than
\* top_k, at similarity 0 too; it is empty when the user has purchased or
\* viewed every product of the catalog.
C27_TopKOfTheRest ==
    Computed
    => \E cb \in {ContentBasedRecommendations(resp.user, resp.k)} :
       \E rest \in {Catalog \ Interacted(resp.user)} :
       \E rows \in {Interacted(resp.user) \cap Catalog} :
          IF ~HasProfile(resp.user) THEN cb = <<>>
          ELSE /\ Len(cb) = Min(resp.k, Cardinality(rest))
               /\ Cardinality({cb[p].product_id : p \in 1..Len(cb)}) = Len(cb)
               /\ NonIncreasing(cb)
               /\ \A p \in 1..Len(cb) :
                     /\ cb[p].product_id \in rest
                     /\ cb[p].reason = {"cb"}
                     /\ cb[p].score = ProfileSimilarity(tfidfData, rows, cb[p].product_id)
                     /\ \A id \in rest \ {cb[q].product_id : q \in 1..Len(cb)} :
                           ProfileSimilarity(tfidfData, rows, id) <= cb[p].score
               /\ (cb = <<>> <=> rest = {})
               /\ resp.method = "content-based" => resp.items = cb

\* a profile exists, every similarity is 0, and the content scorer's list
\* is full
C27_Witness ==
    /\ Computed
    /\ HasProfile(resp.user)
    /\ \E cb \in {ContentBasedRecommendations(resp.user, resp.k)} :
          /\ Len(cb) = resp.k
          /\ \A p \in 1..Len(cb) : cb[p].score = 0

\* C28: whenever an operation has returned the cache holds at most 1000
\* entries, and a write, by a put or by a request the cache did not answer,
\* leaves its own entry in the cache: the key it wrote is not among the keys
\* it evicted, also when every entry has the timestamp of the write.
C28_BoundedAndKeepsWritten ==
    /\ [](Len(cache) <= CacheCapacity)
    /\ [][(\/ resp'.op = "put"
           \/ (resp'.op = "recommend" /\ ~resp'.hit /\ resp'.path # "Error"))
          => \E key \in {RespKey(resp')} :
             \E evicted \in {(KeyCodes(cache) \cup {KeyCode(key)}) \ KeyCodes(cache')} :
                /\ KeyCode(key) \notin evicted
                /\ \E i \in IndexesOf(cache', key) :
                      cache'[i].ts = now /\ cache'[i].data = resp'.items
                /\ evicted # {} => Len(cache) = CacheCapacity]_vars

\* a put made the 1001st entry at the timestamp that every entry has; 200
\* entries left and the written one stayed
C28_Witness ==
    /\ resp.op = "put"
    /\ resp.size = CacheCapacity
    /\ Len(cache) = CacheCapacity + 1 - EvictCount
    /\ IndexesOf(cache, RespKey(resp)) # {}
    /\ \A i \in 1..Len(cache) : cache[i].ts = now

\* C29: a request that computes an empty list stores it under the key with
\* the current time, and a request whose key holds an empty list younger
\* than the TTL is answered with that empty list: no scorer and no popular
\* list is computed and the cache stays as it is, whatever the sales and the
\* user's history are by then.
C29_EmptyListIsCached ==
    [][resp'.op = "recommend" =>
        \E key \in {RespKey(resp')} :
           /\ (resp'.path \in TerminalStates \ {"CacheHit"} /\ resp'.items = <<>>)
                 => \E i \in IndexesOf(cache', key) :
                       cache'[i].data = <<>> /\ cache'[i].ts = now
           /\ (\E i \in IndexesOf(cache, key) :
                   cache[i].data = <<>> /\ now - cache[i].ts < CacheTtl)
                 => /\ resp'.path = "CacheHit"
                    /\ resp'.items = <<>>
                    /\ resp'.calls = {}
                    /\ cache' = cache]_vars

\* the cache answered with an empty list although a popular item exists by
\* now
C29_Witness ==
    /\ resp.op = "recommend"
    /\ resp.path = "CacheHit"
    /\ resp.items = <<>>
    /\ resp.calls = {}
    /\ PopularExists

ProductsOf(recs) == {recs[p].product_id : p \in 1..Len(recs)}

\* C30: a standalone list that replaces an under-filled blend has no more
\* items than the blend, and each of its products is in the blend and among
\* the candidates the two scorers gave the blend for 2 * top_k.
C30_ReplacementWithinBlend ==
    (UnderFilled /\ resp.path = "SingleModel")
    => \E hybrid \in {HybridRecommendations(resp.user, resp.k)} :
       \E pool \in {ProductsOf(CollaborativeRecommendations(resp.user, 2 * resp.k))
                      \cup ProductsOf(ContentBasedRecommendations(resp.user, 2 * resp.k))} :
          /\ Len(resp.items) <= Len(hybrid)
          /\ ProductsOf(resp.items) \subseteq pool
          /\ ProductsOf(resp.items) \subseteq ProductsOf(hybrid)

\* a standalone list with fewer items than the blend it replaced
C30_Witness ==
    /\ UnderFilled
    /\ resp.path = "SingleModel"
    /\ resp.items # <<>>
    /\ Len(resp.items) < Len(HybridRecommendations(resp.user, resp.k))

====
